---- MODULE Spec2Model ----
(***************************************************************************)
(* K nearest neighbours by truncated Dijkstra                              *)
(* (src/src/use_bhtsne/compute_nearest_neighbours_openmp.cpp).             *)
(*                                                                         *)
(* The model follows struct dijkstra: read_graph with normalize_vertex_num *)
(* and convert_edge_w_to_weight builds adj_list_; find_nearest_neighbours  *)
(* runs on the member arrays timer, current_time_, current_distance_ and   *)
(* current_neighbour_indices_; main calls it for 0..N-1 inside an omp      *)
(* parallel for.                                                           *)
(*                                                                         *)
(* Doubles are modelled in fixed point, one unit = 0.01, truncated.  The   *)
(* three IEEE results that 100/log(w+1) yields for w <= 0 (NaN, -0.0 and   *)
(* +infinity) are kept apart from the finite values.                       *)
(*                                                                         *)
(* Line 121 of the source (`answer[vertex_num]`) is an unfinished          *)
(* statement with no effect; the row is what line 122 prints.              *)
(***************************************************************************)
EXTENDS Integers, Sequences, FiniteSets, TLC

(* ------------------------------ bounds --------------------------------- *)

\* Largest number of vertices of a graph.
MaxN == 3

\* Largest num_of_neighbours (argv[2]).
MaxK == 3

\* Largest number of find_nearest_neighbours calls made one after another.
MaxSearches == 2

\* Largest number of scratch slots whose uninitialised marker equals a
\* value that timer takes during the run.
MaxGarbage == 1

\* Largest number of rows and of (destination, weight) pairs read_graph reads.
MaxRows == 2

MaxPairs == 1

\* Number of threads of the omp parallel for.
NumThreads == 2

(* ----------------------------- doubles --------------------------------- *)

\* static constexpr double inf = 1e15, in model units: above every finite
\* path length of the bounded graphs, below IEEE +infinity.
inf == 1000000000

\* IEEE +infinity (100 / log(1) = 100 / 0.0).
PosInfinity == 2000000000

\* IEEE NaN (100 / log(x) for x < 0).
NaN == -1

\* a + b on doubles.
DAdd(a, b) ==
    IF a = NaN \/ b = NaN THEN NaN
    ELSE IF a = PosInfinity \/ b = PosInfinity THEN PosInfinity
    ELSE a + b

\* a < b on doubles: false when either is NaN.
DLt(a, b) == a # NaN /\ b # NaN /\ a < b

\* std::min(a, b): b when b < a, else a.
DMin(a, b) == IF DLt(b, a) THEN b ELSE a

\* Raw weights whose transform is tabulated.
RawWeights == {1, 3}

\* Raw weights for which 100 / log(w + 1) is not a positive finite number.
BadRawWeights == {-2, -1, 0}

\* 100 / log(edge_w + 1), truncated to 0.01.
\* log of a negative number is NaN; log(0) = -infinity and 100 / -infinity
\* = -0.0; log(1) = 0 and 100 / 0.0 = +infinity.
convert_edge_w_to_weight(edge_w) ==
    IF edge_w < -1 THEN NaN
    ELSE IF edge_w = -1 THEN 0
    ELSE IF edge_w = 0 THEN PosInfinity
    ELSE CASE edge_w = 1 -> 14426
           [] edge_w = 2 -> 9102
           [] edge_w = 3 -> 7213
           [] edge_w = 4 -> 6213
           [] edge_w = 5 -> 5581
           [] edge_w = 6 -> 5138
           [] edge_w = 7 -> 4808
           [] edge_w = 8 -> 4551
           [] OTHER -> 4342

(* ------------------------------ state ---------------------------------- *)

VARIABLES
    pc,                            \* main: "read" (in read_graph), "search", "fault"
    evalOrder,                     \* which operand of line 174-175 the build evaluates first
    vertex_num_to_normalized_num_, \* map<int,int>
    mapping_out_,                  \* lines written to the mapping file
    source_vertex,                 \* read_graph's local (meaningful once rowsRead > 0)
    rowsRead, pairsRead,           \* how much input read_graph has consumed
    nonPositiveRead,               \* a raw weight <= 0 has been read
    adj_list_,                     \* vector<pair<int,double>> adj_list_[]
    num_of_neighbours,             \* K, atoi(argv[2])
    timer,
    current_time_,
    current_distance_,
    current_neighbour_indices_,
    garbage,                       \* slots whose uninitialised marker collides with timer
    cout,                          \* rows printed, in order
    last,                          \* what the latest sequential search did
    th                             \* per thread: the locals of its running search

vars == <<pc, evalOrder, vertex_num_to_normalized_num_, mapping_out_,
          source_vertex, rowsRead, pairsRead, nonPositiveRead, adj_list_,
          num_of_neighbours, timer, current_time_, current_distance_,
          current_neighbour_indices_, garbage, cout, last, th>>

\* The part of the 60000-slot member arrays (max_vertices_, line 161) that
\* the bounded runs can reach: the vertices, then as many slots as a padding
\* scan can pass.
ScratchLen == MaxN + MaxK + MaxGarbage + 1

Slots == 0 .. (ScratchLen - 1)

\* External vertex ids of the input matrix.
ExtId(i) == 10 * (i + 1)

ExtIds == {ExtId(i) : i \in 0 .. (MaxN - 1)}

Range(f) == {f[x] : x \in DOMAIN f}

\* The one element of a singleton: Only({F(x) : x \in {e}}) is F(e) with e
\* evaluated once.
Only(S) == CHOOSE r \in S : TRUE

\* int number_of_verices()
number_of_verices == Cardinality(DOMAIN vertex_num_to_normalized_num_)

(* ---------------------------- read_graph -------------------------------- *)

\* The value of `vertex_num_to_normalized_num_.size() - 1` on line 175.  The
\* assignment on line 174 inserts the key through operator[] on its left and
\* reads size() on its right; which comes first is the build's choice (left
\* first before C++17, right first from C++17 on).  With the right operand
\* first the size read is the one before the insertion, and 0 - 1 converts
\* to the int -1.
AssignedIndex(map, order) ==
    IF order = "lhs_first"
    THEN (Cardinality(DOMAIN map) + 1) - 1
    ELSE Cardinality(DOMAIN map) - 1

\* int normalize_vertex_num(int vertex_num): the map after the call, the
\* index returned and the line written to mapping_out_ (none for a known id).
normalize_vertex_num(map, order, vertex_num) ==
    IF vertex_num \in DOMAIN map
    THEN [map |-> map, index |-> map[vertex_num], out |-> <<>>]
    ELSE LET idx == AssignedIndex(map, order)
         IN  [map   |-> [x \in DOMAIN map \cup {vertex_num} |->
                            IF x = vertex_num THEN idx ELSE map[x]],
              index |-> idx,
              out   |-> << <<vertex_num, idx>> >>]

\* Lines 148-149: the edge is appended to both endpoints' lists.
PushEdge(adj, source, dest, edge_weight) ==
    LET a1 == [adj EXCEPT ![source] = Append(@, <<dest, edge_weight>>)]
    IN  [a1 EXCEPT ![dest] = Append(@, <<source, edge_weight>>)]

searchVars == <<num_of_neighbours, timer, current_time_, current_distance_,
                current_neighbour_indices_, garbage, cout, last, th>>

\* Lines 133-139: getline reads a row, its source id is normalized.
ReadRow(id) ==
    /\ pc = "read"
    /\ rowsRead < MaxRows
    /\ LET n == normalize_vertex_num(vertex_num_to_normalized_num_, evalOrder, id)
       IN  /\ vertex_num_to_normalized_num_' = n.map
           /\ mapping_out_' = mapping_out_ \o n.out
           /\ source_vertex' = n.index
    /\ rowsRead' = rowsRead + 1
    /\ UNCHANGED <<pc, evalOrder, pairsRead, nonPositiveRead, adj_list_>>
    /\ UNCHANGED searchVars

\* Lines 142-150: one (destination, weight) pair of the current row.  The
\* weight is transformed and stored whatever its sign.  An index outside the
\* array (the -1 a right-first build assigns) makes lines 148-149 write out
\* of bounds: the run is undefined from there on ("fault").
ReadPair(dest, edge_w) ==
    /\ pc = "read"
    /\ rowsRead > 0
    /\ pairsRead < MaxPairs
    /\ LET n == normalize_vertex_num(vertex_num_to_normalized_num_, evalOrder, dest)
           edge_weight == convert_edge_w_to_weight(edge_w)
       IN  /\ vertex_num_to_normalized_num_' = n.map
           /\ mapping_out_' = mapping_out_ \o n.out
           /\ IF source_vertex \in Slots /\ n.index \in Slots
              THEN /\ adj_list_' = PushEdge(adj_list_, source_vertex, n.index, edge_weight)
                   /\ pc' = pc
              ELSE /\ adj_list_' = adj_list_
                   /\ pc' = "fault"
    /\ pairsRead' = pairsRead + 1
    /\ nonPositiveRead' = (nonPositiveRead \/ edge_w <= 0)
    /\ UNCHANGED <<evalOrder, source_vertex, rowsRead>>
    /\ UNCHANGED searchVars

\* Lines 152 and 194-198: getline fails at the end of the input, read_graph
\* returns and main goes on to the loop over 0..num_vertices-1.
ReadEnd ==
    /\ pc = "read"
    /\ pc' = "search"
    /\ UNCHANGED <<evalOrder, vertex_num_to_normalized_num_, mapping_out_,
                   source_vertex, rowsRead, pairsRead, nonPositiveRead, adj_list_>>
    /\ UNCHANGED searchVars

(* ---------------------- find_nearest_neighbours ------------------------- *)

\* The member arrays as one value: timer, current_time_, current_distance_
\* and current_neighbour_indices_.
Members == [timer |-> timer, time |-> current_time_,
            dist |-> current_distance_, nbr |-> current_neighbour_indices_]

\* operator< of pair<double,int>: by distance, then by vertex index.
PairLess(p, q) == DLt(p[1], q[1]) \/ (p[1] = q[1] /\ p[2] < q[2])

\* st.begin(): the least element of the ordered set.
StBegin(st) == CHOOSE p \in st : \A q \in st : q = p \/ PairLess(p, q)

\* Lines 68-88: one edge of best_vertex.  timer is the member, read anew.
Relax(m, st, best_vertex, edge) ==
    LET to_vertex == edge[1]
        weight    == edge[2]
        stale     == m.time[to_vertex] # m.timer
        time1     == IF stale THEN [m.time EXCEPT ![to_vertex] = m.timer] ELSE m.time
        dist1     == IF stale THEN [m.dist EXCEPT ![to_vertex] = inf] ELSE m.dist
        cur_dist  == dist1[to_vertex]
        proposed_dist == DAdd(dist1[best_vertex], weight)
        better    == DLt(proposed_dist, cur_dist)
        dist2     == IF better THEN [dist1 EXCEPT ![to_vertex] = proposed_dist] ELSE dist1
        st2       == IF better
                     THEN (st \ {<<cur_dist, to_vertex>>}) \cup {<<proposed_dist, to_vertex>>}
                     ELSE st
        dist3     == [dist2 EXCEPT ![to_vertex] =
                         DMin(dist2[to_vertex], DAdd(dist2[best_vertex], weight))]
    IN  [m |-> [m EXCEPT !.time = time1, !.dist = dist3], st |-> st2]

\* Line 66: the loop over adj_list_[best_vertex], from its i-th edge on.
RECURSIVE RelaxAll(_, _, _, _, _)
RelaxAll(m, st, best_vertex, edges, i) ==
    IF i > Len(edges) THEN [m |-> m, st |-> st]
    ELSE Only({RelaxAll(r.m, r.st, best_vertex, edges, i + 1) :
                 r \in {Relax(m, st, best_vertex, edges[i])}})

\* Lines 92-95: every extraction but the first is recorded.
RecordNeighbour(nbr, it, best_vertex) ==
    IF it > 0 THEN [nbr EXCEPT ![it] = best_vertex] ELSE nbr

\* Lines 53-58: the state a search of vertex_num starts its loop in.
\* l holds the locals: st, it, cur_idx, and scan, the highest index whose
\* marker the padding loop has examined (-1: none).
BeginSearch(m, vertex_num) ==
    LET t == m.timer + 1
    IN  [m |-> [m EXCEPT !.timer = t,
                         !.time = [@ EXCEPT ![vertex_num] = t],
                         !.dist = [@ EXCEPT ![vertex_num] = 0]],
         l |-> [st |-> {<<0, vertex_num>>}, it |-> 0, cur_idx |-> 0,
                scan |-> 0 - 1]]

\* Line 61: the condition of the extraction loop.
ExtractCond(l, K) == l.it <= K /\ l.st # {}

\* Lines 63-95: one iteration of the extraction loop.
ExtractIter(m, l, adj) ==
    Only({Only({[m |-> [r.m EXCEPT !.nbr = RecordNeighbour(@, l.it, iter[2])],
                 l |-> [l EXCEPT !.st = r.st, !.it = l.it + 1]] :
                  r \in {RelaxAll(m, l.st \ {iter}, iter[2], adj[iter[2]], 1)}}) :
          iter \in {StBegin(l.st)}})

\* SkipTouched with the scan of lines 105-108 left out.
SkipTouched_NoScan(time, t, cur_idx) == cur_idx

\* Lines 105-108: the first index from cur_idx on whose marker is not timer.
RECURSIVE SkipTouched(_, _, _)
SkipTouched(time, t, cur_idx) ==
    IF time[cur_idx] = t THEN SkipTouched(time, t, cur_idx + 1) ELSE cur_idx

\* PadCond stopping one iteration early.
PadCond_OneShort(l, K) == l.it < K

\* Line 103: the condition of the padding loop.
PadCond(l, K) == l.it <= K

\* Lines 105-111: one iteration of the padding loop.
PadIter(m, l) ==
    Only({[m |-> [m EXCEPT !.dist = [@ EXCEPT ![idx] = inf],
                           !.nbr  = [@ EXCEPT ![l.it] = idx]],
           l |-> [l EXCEPT !.it = l.it + 1, !.cur_idx = idx + 1,
                           !.scan = idx]] :
          idx \in {SkipTouched(m.time, m.timer, l.cur_idx)}})

\* Line 114: the row is printed only when it has run up to K + 1.
RowPrinted(l, K) == l.it = K + 1

\* Lines 118-123: the records of the row, (index, distance) each.
Row(m, K) == [i \in 1 .. K |-> <<m.nbr[i], m.dist[m.nbr[i]]>>]

\* Lines 61-96: the extraction loop run to its end.  It starts with it = 0
\* and stops at it = K + 1 at the latest: after[i] is the state after at
\* most i iterations.
ExtractLoop(m, l, adj, K) ==
    LET after[i \in 0 .. (K + 1)] ==
            IF i = 0 THEN [m |-> m, l |-> l]
            ELSE Only({IF ExtractCond(prev.l, K)
                       THEN ExtractIter(prev.m, prev.l, adj)
                       ELSE prev : prev \in {after[i - 1]}})
    IN  after[K + 1]

\* Lines 103-112: the padding loop run to its end.

RECURSIVE PadLoop(_, _, _)
PadLoop(m, l, K) ==
    IF PadCond(l, K)
    THEN Only({PadLoop(r.m, r.l, K) : r \in {PadIter(m, l)}})
    ELSE [m |-> m, l |-> l]

\* find_nearest_neighbours(vertex_num, K) run from start to end with no
\* other search running: the members after it, its locals, the row it
\* printed (<<>> with printed = FALSE when line 114 skips the output), and
\* what the claims about one search need: found, the number of extractions
\* recorded (it - 1 when the extraction loop ends); emptied, whether that
\* loop ended on an empty frontier; padded, whether the padding loop ran;
\* touched, the indices whose marker equals timer; scan.
RunSearch(m, vertex_num, adj, K) ==
    Only({Only({Only({
        [m       |-> p.m,
         ran     |-> TRUE,
         vertex  |-> vertex_num,
         printed |-> RowPrinted(p.l, K),
         row     |-> IF RowPrinted(p.l, K) THEN Row(p.m, K) ELSE <<>>,
         found   |-> e.l.it - 1,
         emptied |-> e.l.st = {},
         padded  |-> e.l.it <= K,
         touched |-> {i \in Slots : e.m.time[i] = e.m.timer},
         scan    |-> p.l.scan] :
            p \in {PadLoop(e.m, e.l, K)}}) :
            e \in {ExtractLoop(b.m, b.l, adj, K)}}) :
            b \in {BeginSearch(m, vertex_num)}})

ingestVars == <<pc, evalOrder, vertex_num_to_normalized_num_, mapping_out_,
                source_vertex, rowsRead, pairsRead, nonPositiveRead, adj_list_>>

\* One call find_nearest_neighbours(vertex_num, num_of_neighbours) of main's
\* loop (lines 198-201), run to its end before the next one starts.
Search(vertex_num) ==
    /\ pc = "search"
    /\ timer < MaxSearches
    /\ vertex_num \in 0 .. (number_of_verices - 1)
    /\ \E r \in {RunSearch(Members, vertex_num, adj_list_, num_of_neighbours)} :
           /\ timer' = r.m.timer
           /\ current_time_' = r.m.time
           /\ current_distance_' = r.m.dist
           /\ current_neighbour_indices_' = r.m.nbr
           /\ cout' = IF r.printed
                      THEN Append(cout, [vertex |-> vertex_num, row |-> r.row])
                      ELSE cout
           /\ last' = [r EXCEPT !.m = 0]
    /\ UNCHANGED ingestVars
    /\ UNCHANGED <<num_of_neighbours, garbage, th>>

(* ------------------------------- main ----------------------------------- *)

\* Iterations of the parallel loop that thread t (0-based) runs under the
\* static schedule: contiguous chunks, the first n % NumThreads one longer.
ChunkStart(t, n) ==
    LET q == n \div NumThreads
        r == n % NumThreads
    IN  IF t < r THEN t * (q + 1) ELSE r * (q + 1) + (t - r) * q

ChunkEnd(t, n) == ChunkStart(t + 1, n)

Threads == 0 .. (NumThreads - 1)

\* A thread starts the next call of its chunk: lines 53-58.
TBegin(t) ==
    /\ pc = "search"
    /\ th[t].state = "idle"
    /\ th[t].next < ChunkEnd(t, number_of_verices)
    /\ \E b \in {BeginSearch(Members, th[t].next)} :
           /\ timer' = b.m.timer
           /\ current_time_' = b.m.time
           /\ current_distance_' = b.m.dist
           /\ th' = [th EXCEPT ![t] = [@ EXCEPT !.state = "run", !.l = b.l]]
    /\ UNCHANGED ingestVars
    /\ UNCHANGED <<num_of_neighbours, current_neighbour_indices_, garbage, cout, last>>

\* One iteration of a thread's extraction loop, on the shared members.
TExtract(t) ==
    /\ pc = "search"
    /\ th[t].state = "run"
    /\ ExtractCond(th[t].l, num_of_neighbours)
    /\ \E r \in {ExtractIter(Members, th[t].l, adj_list_)} :
           /\ current_time_' = r.m.time
           /\ current_distance_' = r.m.dist
           /\ current_neighbour_indices_' = r.m.nbr
           /\ th' = [th EXCEPT ![t] = [@ EXCEPT !.l = r.l]]
    /\ UNCHANGED ingestVars
    /\ UNCHANGED <<num_of_neighbours, timer, garbage, cout, last>>

\* One iteration of a thread's padding loop, on the shared members.
TPad(t) ==
    /\ pc = "search"
    /\ th[t].state = "run"
    /\ ~ExtractCond(th[t].l, num_of_neighbours)
    /\ PadCond(th[t].l, num_of_neighbours)
    /\ \E r \in {PadIter(Members, th[t].l)} :
           /\ current_distance_' = r.m.dist
           /\ current_neighbour_indices_' = r.m.nbr
           /\ th' = [th EXCEPT ![t] = [@ EXCEPT !.l = r.l]]
    /\ UNCHANGED ingestVars
    /\ UNCHANGED <<num_of_neighbours, timer, current_time_, garbage, cout, last>>

\* Lines 114-126: a thread prints its row from the shared members and goes
\* on to the next iteration of its chunk.
TEmit(t) ==
    /\ pc = "search"
    /\ th[t].state = "run"
    /\ ~ExtractCond(th[t].l, num_of_neighbours)
    /\ ~PadCond(th[t].l, num_of_neighbours)
    /\ cout' = IF RowPrinted(th[t].l, num_of_neighbours)
               THEN Append(cout, [vertex |-> th[t].next,
                                  row |-> Row(Members, num_of_neighbours)])
               ELSE cout
    /\ th' = [th EXCEPT ![t] = [@ EXCEPT !.state = "idle", !.next = @ + 1]]
    /\ UNCHANGED ingestVars
    /\ UNCHANGED <<num_of_neighbours, timer, current_time_, current_distance_,
                   current_neighbour_indices_, garbage, last>>

(* ------------------------------- Init ----------------------------------- *)

\* Values an uninitialised current_distance_ slot is given where its marker
\* collides.
GarbageDistances == {0, inf}

\* A search's locals before it has started.
NoLocals == [st |-> {}, it |-> 0, cur_idx |-> 0, scan |-> 0 - 1]

NoSearch == [m |-> 0, ran |-> FALSE, vertex |-> 0, printed |-> FALSE,
             row |-> <<>>, found |-> 0, emptied |-> FALSE, padded |-> FALSE,
             touched |-> {}, scan |-> 0 - 1]

\* The constructor (lines 46-49, 160-168) sets timer to 0 and leaves
\* current_time_, current_distance_ and current_neighbour_indices_
\* uninitialised.  current_time_ is only ever compared with timer, so a
\* slot's unknown marker matters only when it equals a value timer takes:
\* those slots are G, with the marker tv and the distance dv they hold; 0
\* stands for every other marker (timer is incremented before its first
\* use).  The other slots of current_distance_ and all of
\* current_neighbour_indices_ are written before they are read.
InitScratch(timerValues) ==
    /\ timer = 0
    /\ \E G \in SUBSET Slots :
         /\ Cardinality(G) <= MaxGarbage
         /\ garbage = G
         /\ \E tv \in [G -> timerValues] : \E dv \in [G -> GarbageDistances] :
              /\ current_time_ = [i \in Slots |-> IF i \in G THEN tv[i] ELSE 0]
              /\ current_distance_ = [i \in Slots |-> IF i \in G THEN dv[i] ELSE 0]
    /\ current_neighbour_indices_ = [i \in Slots |-> 0]
    /\ cout = <<>>
    /\ last = NoSearch

\* Vertex pairs i < j of a graph with n vertices, and their order in the
\* input.
Pairs(n) == {<<i, j>> \in (0 .. (n - 1)) \X (0 .. (n - 1)) : i < j}

RECURSIVE PairSeq(_)
PairSeq(P) ==
    IF P = {} THEN <<>>
    ELSE LET p == CHOOSE x \in P : \A y \in P :
                      x[1] < y[1] \/ (x[1] = y[1] /\ x[2] <= y[2])
         IN  <<p>> \o PairSeq(P \ {p})

\* adj_list_ after read_graph has read the edges ps[i..] with raw weights w.
RECURSIVE BuildAdj(_, _, _, _)
BuildAdj(adj, ps, i, w) ==
    IF i > Len(ps) THEN adj
    ELSE BuildAdj(PushEdge(adj, ps[i][1], ps[i][2],
                           convert_edge_w_to_weight(w[ps[i]])),
                  ps, i + 1, w)

NoEdges == [i \in Slots |-> <<>>]

\* The state main is in after read_graph, in a build that assigns the
\* indices 0..n-1, has read a matrix over n vertices with positive raw
\* weights: ids 10, 20, ... first seen in that order, edge set E.
InitGraph(sizes) ==
    /\ pc = "search"
    /\ evalOrder = "lhs_first"
    /\ \E n \in sizes : \E E \in SUBSET Pairs(n) : \E w \in [E -> RawWeights] :
         /\ vertex_num_to_normalized_num_ =
                [id \in {ExtId(i) : i \in 0 .. (n - 1)} |-> (id \div 10) - 1]
         /\ mapping_out_ = [i \in 1 .. n |-> <<ExtId(i - 1), i - 1>>]
         /\ adj_list_ = BuildAdj(NoEdges, PairSeq(E), 1, w)
         /\ th = [t \in Threads |->
                    [state |-> "idle", next |-> ChunkStart(t, n), l |-> NoLocals]]
    /\ source_vertex = 0
    /\ rowsRead = 0
    /\ pairsRead = 0
    /\ nonPositiveRead = FALSE
    /\ num_of_neighbours \in 1 .. MaxK

\* Searches run one after another on a graph of at most MaxN vertices.
Init == InitGraph(1 .. MaxN) /\ InitScratch(1 .. MaxSearches)

Next == \E v \in Slots : Search(v)

Spec == Init /\ [][Next]_vars

\* The searches of main's parallel loop, interleaved iteration by iteration,
\* started from scratch memory none of whose markers collides with timer:
\* what goes wrong in these runs is the interleaving's doing alone.
InitPar == InitGraph(1 .. MaxN) /\ InitScratch({})

NextPar == \E t \in Threads : TBegin(t) \/ TExtract(t) \/ TPad(t) \/ TEmit(t)

SpecPar == InitPar /\ [][NextPar]_vars

\* One search on a graph of MaxN + 1 vertices.
InitWide == InitGraph({MaxN + 1}) /\ InitScratch({1})

NextWide == \E v \in Slots : timer = 0 /\ Search(v)

SpecWide == InitWide /\ [][NextWide]_vars

\* The whole run: read_graph on a matrix, then searches one after another.
InitIngest ==
    /\ pc = "read"
    /\ evalOrder \in {"lhs_first", "rhs_first"}
    /\ vertex_num_to_normalized_num_ = <<>>
    /\ mapping_out_ = <<>>
    /\ adj_list_ = NoEdges
    /\ th = [t \in Threads |-> [state |-> "idle", next |-> 0, l |-> NoLocals]]
    /\ source_vertex = 0
    /\ rowsRead = 0
    /\ pairsRead = 0
    /\ nonPositiveRead = FALSE
    /\ num_of_neighbours \in 1 .. MaxK
    /\ InitScratch(1 .. MaxSearches)

NextIngest ==
    \/ \E id \in ExtIds : ReadRow(id)
    \/ \E id \in ExtIds : \E w \in RawWeights \cup BadRawWeights : ReadPair(id, w)
    \/ ReadEnd
    \/ \E v \in Slots : Search(v)

SpecIngest == InitIngest /\ [][NextIngest]_vars

(* ------------------------- reference notions ---------------------------- *)

Vertices == 0 .. (number_of_verices - 1)

\* Every stored edge has a positive finite distance.
PositiveGraph ==
    \A v \in Slots : \A i \in 1 .. Len(adj_list_[v]) :
        adj_list_[v][i][2] > 0 /\ adj_list_[v][i][2] < inf

MinOf(S) == CHOOSE x \in S : \A y \in S : x <= y

\* Shortest-path distances from s by Bellman-Ford, k rounds; inf where no
\* path of at most k edges exists.
RECURSIVE RefRounds(_, _)
RefRounds(s, k) ==
    IF k = 0 THEN [v \in Vertices |-> IF v = s THEN 0 ELSE inf]
    ELSE Only({[v \in Vertices |->
                    MinOf({d[v]} \cup
                          {d[u] + adj_list_[u][i][2] :
                               <<u, i>> \in {<<x, j>> \in Vertices \X (1 .. MaxN * MaxN) :
                                               /\ j <= Len(adj_list_[x])
                                               /\ adj_list_[x][j][1] = v
                                               /\ d[x] < inf}})] :
               d \in {RefRounds(s, k - 1)}})

RefDist(s) == RefRounds(s, number_of_verices)

\* The vertices other than s that s reaches.
Reachable(s) == {v \in Vertices \ {s} : RefDist(s)[v] < inf}

\* A set of integers in ascending order.
RECURSIVE Ascending(_)
Ascending(S) ==
    IF S = {} THEN <<>> ELSE <<MinOf(S)>> \o Ascending(S \ {MinOf(S)})

\* Scratch memory none of whose markers equals a value timer takes.
FreshMembers ==
    [timer |-> 0, time |-> [i \in Slots |-> 0], dist |-> [i \in Slots |-> 0],
     nbr |-> [i \in Slots |-> 0]]

\* The row the search of v prints when run alone on fresh scratch memory.
SoloRow(v) == RunSearch(FreshMembers, v, adj_list_, num_of_neighbours).row

SmallerOf(a, b) == IF a < b THEN a ELSE b

(* ------------------------------ claims ---------------------------------- *)

\* C1: with positive edge distances, a search run on its own records exactly
\* min(K, number of other vertices reachable from s) real neighbours, they
\* are the vertices nearest to s, and each is reported with its true
\* shortest-path distance.
C1_TrueNearestNeighbours ==
    (last.ran /\ PositiveGraph) =>
        Only({/\ last.printed
              /\ last.found = SmallerOf(num_of_neighbours, Cardinality(Reachable(last.vertex)))
              /\ Cardinality({last.row[i][1] : i \in 1 .. last.found}) = last.found
              /\ \A i \in 1 .. last.found :
                    /\ last.row[i][1] \in Reachable(last.vertex)
                    /\ last.row[i][2] = D[last.row[i][1]]
                    /\ \A u \in Reachable(last.vertex) \ {last.row[j][1] : j \in 1 .. last.found} :
                          D[u] >= D[last.row[i][1]] :
              D \in {RefDist(last.vertex)}})

\* C2: every search emits a row of exactly K records, the real records
\* first and the placeholders (distance inf) after them, whether it stopped
\* after K + 1 extractions or on an empty frontier.
C2_RowHasKRecords ==
    last.ran =>
        /\ last.printed
        /\ Len(last.row) = num_of_neighbours
        /\ last.found <= num_of_neighbours
        /\ \A i \in 1 .. num_of_neighbours :
              IF i <= last.found THEN last.row[i][2] < inf ELSE last.row[i][2] = inf

\* An isolated source with K >= 2: no real record, K placeholders.
C2_Witness ==
    /\ last.ran /\ last.emptied /\ last.padded
    /\ adj_list_[last.vertex] = <<>>
    /\ last.found = 0
    /\ num_of_neighbours >= 2
    /\ Len(last.row) = num_of_neighbours

C4_ParallelRowsAsAlone ==
    \A i \in 1 .. Len(cout) : cout[i].row = SoloRow(cout[i].vertex)

\* C5: the indices assigned to n distinct external ids are exactly 0..n-1,
\* no two ids share one, and the i-th id first seen holds index i - 1.
C5_DenseIndices ==
    /\ Range(vertex_num_to_normalized_num_) = 0 .. (number_of_verices - 1)
    /\ Len(mapping_out_) = number_of_verices
    /\ \A i \in 1 .. Len(mapping_out_) :
          /\ mapping_out_[i][2] = i - 1
          /\ mapping_out_[i][1] \in DOMAIN vertex_num_to_normalized_num_
          /\ vertex_num_to_normalized_num_[mapping_out_[i][1]] = i - 1

\* The distances a raw weight <= 0 is transformed to.
NotADistance == {NaN, 0, PosInfinity}

\* C6: once read_graph has met a raw weight <= 0, no edge carrying its
\* transform is stored and no search is ever started.
C6_NonPositiveWeightFatal ==
    nonPositiveRead =>
        /\ pc # "search"
        /\ timer = 0
        /\ \A v \in Slots : \A i \in 1 .. Len(adj_list_[v]) :
              adj_list_[v][i][2] \notin NotADistance

\* C7: when a search run on its own empties its frontier with m < K real
\* records, the placeholders are the K - m lowest vertex indices the search
\* did not touch, ascending, each with distance inf.
C7_LowestUntouched ==
    (last.ran /\ PositiveGraph /\ last.emptied /\ last.found < num_of_neighbours) =>
        Only({/\ Len(U) >= num_of_neighbours - last.found
              /\ \A i \in 1 .. (num_of_neighbours - last.found) :
                    /\ i <= Len(U)
                    /\ last.row[last.found + i] = <<U[i], inf>> :
              U \in {Ascending(Vertices \ ({last.vertex} \cup Reachable(last.vertex)))}})

\* C8: the padding scan never examines a marker at an index >= N, and every
\* index of the emitted row is a vertex index in [0, N).
C8_ScanStaysInGraph ==
    last.ran =>
        /\ last.scan < number_of_verices
        /\ \A i \in 1 .. Len(last.row) : last.row[i][1] \in Vertices

\* C9: with positive edge distances, the real records of a row appear in
\* strictly increasing order of (shortest-path distance, vertex index).
C9_RealRecordsAscending ==
    (last.ran /\ PositiveGraph) =>
        Only({\A i \in 1 .. last.found : \A j \in 1 .. last.found :
                 i < j =>
                    \/ D[last.row[i][1]] < D[last.row[j][1]]
                    \/ /\ D[last.row[i][1]] = D[last.row[j][1]]
                       /\ last.row[i][1] < last.row[j][1] :
              D \in {RefDist(last.vertex)}})

\* C10: the row of a search run after other searches on the same object
\* equals the row of that search started on freshly initialized scratch
\* state.
C10_RowAsOnFreshScratch ==
    last.ran => last.row = SoloRow(last.vertex)

(* ------------------ with no colliding marker in memory ------------------ *)

\* The statements of C1, C9 and C10 as far as they hold of the code: in
\* runs whose uninitialised markers equal no value of timer.
CleanScratch_TrueNearestNeighbours == garbage = {} => C1_TrueNearestNeighbours

CleanScratch_RealRecordsAscending == garbage = {} => C9_RealRecordsAscending

CleanScratch_RowAsOnFreshScratch == garbage = {} => C10_RowAsOnFreshScratch

====
